---- MODULE Spec2Model ----
(***************************************************************************)
(* Subscription lifecycle of the demo components of AngularApolloGraphQL.  *)
(*                                                                         *)
(* HeroDetailComponent subscribes by hand to getAllPlanets() through       *)
(* takeUntil(destroy$); PlanetComponent.addPlanet subscribes by hand to    *)
(* the addPlanet mutation through take(1), takeUntil(destroy$).  Each      *)
(* component owns a plain Subject<void> destroy$ on which ngOnDestroy      *)
(* calls next().  The Apollo sources are the environment: each manual      *)
(* subscription has its own source that pushes responses, errors or (for   *)
(* a mutation) completes, whether or not somebody still listens.           *)
(***************************************************************************)
EXTENDS Integers, Sequences, FiniteSets, TLC

\* ------------------------------------------------------------------ bounds
MaxSubs == 3      \* manual subscriptions started in one run
MaxEmits == 2     \* source events (next / error / complete) in one run
MaxFire == 2      \* ngOnDestroy calls per owner
MaxHeros == 4     \* responses pushed through getHerosByType in one run
MaxNav == 2       \* changes of the route params in one run
MaxHeroIdSubs == 2    \* subscribers of heroId$ in one run

\* ------------------------------------------------------------------ universe
Heroes == {"hero1"}
PlanetOwners == {"planet1", "planet2"}
Owners == Heroes \cup PlanetOwners
SubIds == 1..MaxSubs

\* `data` of a response: JavaScript null, undefined, or a payload
Null == "null"
Undefined == "undefined"
Payloads == <<"earth", "mars", "venus", "pluto", "ceres">>
\* the responses the k-th source event of a run can be: without data (null or
\* undefined) or carrying the k-th payload, so that distinct results differ
Responses(k) ==
    { [data |-> Null], [data |-> Undefined], [data |-> Payloads[k]] }

VARIABLES
    fireCalls,   \* owner -> number of destroy$.next() calls made by ngOnDestroy
    inited,      \* hero owner -> ngOnInit has run
    nsubs,       \* number of manual subscriptions started so far
    subs,        \* id -> the subscription (see NewSub); NoSub when not started
    planets,     \* hero owner -> HeroDetailComponent.planets
    emits,       \* source events so far
    handledErrors,    \* ids whose error reached an error handler of the owner
    unhandledErrors,  \* ids whose error reached a subscriber without handler
    planetsObs,  \* planet owner -> PlanetComponent.planets$
    heroIdSubs,  \* hero owner -> number of subscribers of heroId$
    heroObs,     \* hero owner -> HeroDetailComponent.hero$
    getHeroCalls,     \* the ids heroRepository.getHero was called with, in order
    route,       \* hero owner -> current id of route.params, number of changes
    refetched,   \* refetches of GET_ALL_PLANETS the provider has run
    herosIn,     \* responses pushed into a getHerosByType() observable
    herosOut,    \* values that observable passed on
    pipes,       \* addPlanet call -> its source and the pipe variants fed by it
    pipeFire,    \* destroy$.next() calls of the owner of those pipes
    pipeEvents   \* source events of those pipes so far

coreVars == <<fireCalls, inited, nsubs, subs, planets, emits, handledErrors, unhandledErrors>>
viewVars == <<planetsObs, heroIdSubs, heroObs, getHeroCalls, route>>
herosVars == <<herosIn, herosOut>>
pipeVars == <<pipes, pipeFire, pipeEvents>>

\* the variables the subscription operations of the components never touch
auxVars == <<viewVars, refetched, herosVars, pipeVars>>

vars == <<coreVars, auxVars>>

\* ------------------------------------------------------------------ rxjs pieces
\* x !== null  (strict inequality: true for undefined)
StrictNotNull(x) == x # Null

\* x != null  (loose inequality: false for null and for undefined)
LooseNotNull(x) == x \notin {Null, Undefined}

\* a pipe without the filter: every response is mapped to its data
RepoPipeNoFilter(r) == <<r.data>>

\* filter(response => response.data != null), map(response => response.data):
\* the sequence of values the repository observable passes on for one response
RepoPipe(r) == IF LooseNotNull(r.data) THEN <<r.data>> ELSE <<>>

\* one Subject shared by every component (a static destroy$)
NotifierShared(o) == "planet1"

\* the Subject a component hands to takeUntil: its own destroy$
Notifier(o) == o

\* the observer given to subscribe(): .subscribe() passes no handler
BareObserver == [hasNext |-> FALSE, hasError |-> FALSE]

NoSub == [state |-> "none"]

\* a subscription right after subscribe(): takeUntil has subscribed to the
\* notifier, then the chain has subscribed to the source
NewSub(o, k, lim) ==
    [ state      |-> "pending",
      owner      |-> o,
      kind       |-> k,          \* "query" | "mutation"
      limit      |-> lim,        \* take(n): n, 0 when there is no take
      notifier   |-> Notifier(o),
      listening  |-> TRUE,       \* still an observer of the notifier Subject
      attached   |-> TRUE,       \* still an observer of the source
      src        |-> "open",     \* the source itself: open | error | done
      produced   |-> 0,          \* responses with data the source has produced
      received   |-> <<>>,       \* responses the source pushed into the pipe
      repoOut    |-> <<>>,       \* values the repository observable passed on
      out        |-> <<>>,       \* values that reached the subscriber
      reason     |-> "none",     \* limit | signal | error | source
      completes  |-> 0,          \* terminal notifications at the subscriber
      bornFired  |-> fireCalls[o] > 0,   \* started after destroy$ had fired
      late       |-> FALSE,      \* source produced data after the owner fired
      lateOut    |-> FALSE,      \* a value reached the subscriber after it
      observer   |-> BareObserver ]

Started == { s \in SubIds : subs[s].state # "none" }
SubsOf(o) == { s \in Started : subs[s].owner = o }
fired(o) == fireCalls[o] > 0

\* completion that neither checks for a stopped subscriber nor tears down
TerminateNoTeardown(sub, why) ==
    [sub EXCEPT !.state = "completed", !.reason = why, !.completes = @ + 1]

\* Subscriber.complete()/error() and the teardown of the chain: a stopped
\* subscriber ignores it; otherwise it is stopped and unsubscribed from the
\* source and from the notifier
Terminate(sub, why) ==
    IF sub.state # "pending" THEN sub
    ELSE [sub EXCEPT !.state = "completed", !.reason = why,
                     !.completes = @ + 1,
                     !.attached = FALSE, !.listening = FALSE]

\* Subscriber.next(v): a stopped subscriber drops the value
Deliver(sub, v) ==
    IF sub.state # "pending" THEN sub
    ELSE [sub EXCEPT !.out = Append(@, v),
                     !.lateOut = @ \/ fireCalls[sub.owner] > 0]

\* take(n) that completes one value late
TakeOffByOne(sub, v) ==
    LET d == Deliver(sub, v)
    IN  IF sub.limit > 0 /\ Len(d.out) > sub.limit THEN Terminate(d, "limit") ELSE d

\* take(n) for one value from upstream: pass it on, complete at the n-th
Take(sub, v) ==
    LET d == Deliver(sub, v)
    IN  IF sub.limit > 0 /\ Len(d.out) >= sub.limit THEN Terminate(d, "limit") ELSE d

\* a pipe without takeUntil: the notifier is ignored
TakeUntilIgnored(sub) == sub

\* a handler that completes again and stays subscribed to the notifier
TakeUntilRepeats(sub) ==
    [sub EXCEPT !.state = "completed", !.reason = "signal",
                !.completes = @ + 1, !.attached = FALSE]

\* takeUntil's notifier handler: complete the subscriber
TakeUntilNotified(sub) == Terminate(sub, "signal")

\* ------------------------------------------------------------------ Init
Init ==
    /\ fireCalls = [o \in Owners |-> 0]
    /\ inited = [o \in Heroes |-> FALSE]
    /\ nsubs = 0
    /\ subs = [s \in SubIds |-> NoSub]
    /\ planets = [o \in Heroes |-> Null]
    /\ emits = 0
    /\ handledErrors = {}
    /\ unhandledErrors = {}
    /\ planetsObs = [o \in PlanetOwners |-> Null]
    /\ heroIdSubs = [o \in Heroes |-> 0]
    /\ heroObs = [o \in Heroes |-> [call |-> "none"]]
    /\ getHeroCalls = <<>>
    /\ route = [o \in Heroes |-> [id |-> "batman", navs |-> 0]]
    /\ refetched = 0
    /\ herosIn = <<>>
    /\ herosOut = <<>>
    /\ pipes = [c \in SubIds |-> NoSub]
    /\ pipeFire = 0
    /\ pipeEvents = 0

\* ------------------------------------------------------------------ operations
\* destroy$.complete() in place of next(): takeUntil ignores a notifier that
\* completes without a value
FireSubsComplete(o, S) == S

\* destroy$.next(): every current observer of owner o's Subject is notified
FireSubs(o, S) ==
    [ s \in SubIds |->
        IF S[s].state # "none" /\ S[s].listening /\ S[s].notifier = o
        THEN TakeUntilNotified(S[s]) ELSE S[s] ]

\* the async pipe of owner o's template unsubscribes when the view is
\* destroyed: no completion is delivered, the subscription is released
ViewTeardown(o, S) ==
    [ s \in SubIds |->
        IF S[s].state = "pending" /\ S[s].kind = "view" /\ S[s].owner = o
        THEN [S[s] EXCEPT !.state = "completed", !.reason = "unsubscribed",
                          !.attached = FALSE]
        ELSE S[s] ]

\* an ngOnDestroy that fires only when the owner has subscriptions
NgOnDestroyIfSubs(o) ==
    /\ SubsOf(o) # {}
    /\ fireCalls[o] < MaxFire
    /\ fireCalls' = [fireCalls EXCEPT ![o] = @ + 1]
    /\ subs' = FireSubs(o, subs)
    /\ UNCHANGED <<inited, nsubs, planets, emits, handledErrors, unhandledErrors>>
    /\ UNCHANGED auxVars

\* HeroDetailComponent.ngOnDestroy / PlanetComponent.ngOnDestroy; the
\* framework destroys the view with the component
NgOnDestroy(o) ==
    /\ fireCalls[o] < MaxFire
    /\ fireCalls' = [fireCalls EXCEPT ![o] = @ + 1]
    /\ subs' = ViewTeardown(o, FireSubs(o, subs))
    /\ UNCHANGED <<inited, nsubs, planets, emits, handledErrors, unhandledErrors>>
    /\ UNCHANGED auxVars

\* an ngOnInit whose read subscription is limited by take(1)
HeroNgOnInitTakeOne(o) ==
    /\ o \in Heroes
    /\ ~inited[o] /\ fireCalls[o] = 0
    /\ nsubs < MaxSubs
    /\ inited' = [inited EXCEPT ![o] = TRUE]
    /\ nsubs' = nsubs + 1
    /\ subs' = [subs EXCEPT ![nsubs + 1] = NewSub(o, "query", 1)]
    /\ UNCHANGED <<fireCalls, planets, emits, handledErrors, unhandledErrors>>
    /\ UNCHANGED auxVars

\* HeroDetailComponent.ngOnInit: the framework runs it once, before any
\* ngOnDestroy; it subscribes to getAllPlanets() through takeUntil(destroy$)
HeroNgOnInit(o) ==
    /\ o \in Heroes
    /\ ~inited[o] /\ fireCalls[o] = 0
    /\ nsubs < MaxSubs
    /\ inited' = [inited EXCEPT ![o] = TRUE]
    /\ nsubs' = nsubs + 1
    /\ subs' = [subs EXCEPT ![nsubs + 1] = NewSub(o, "query", 0)]
    /\ UNCHANGED <<fireCalls, planets, emits, handledErrors, unhandledErrors>>
    /\ UNCHANGED auxVars

\* addPlanet with takeUntil(destroy$) only
AddPlanetNoTake(o) ==
    /\ o \in PlanetOwners
    /\ nsubs < MaxSubs
    /\ nsubs' = nsubs + 1
    /\ subs' = [subs EXCEPT ![nsubs + 1] = NewSub(o, "mutation", 0)]
    /\ UNCHANGED <<fireCalls, inited, planets, emits, handledErrors, unhandledErrors>>
    /\ UNCHANGED auxVars

\* PlanetComponent.addPlanet: a public method, callable whenever the object
\* is reachable; subscribes to the mutation through take(1), takeUntil(destroy$)
AddPlanet(o) ==
    /\ o \in PlanetOwners
    /\ nsubs < MaxSubs
    /\ nsubs' = nsubs + 1
    /\ subs' = [subs EXCEPT ![nsubs + 1] = NewSub(o, "mutation", 1)]
    /\ UNCHANGED <<fireCalls, inited, planets, emits, handledErrors, unhandledErrors>>
    /\ UNCHANGED auxVars

\* what the source's response r does to subscription sub
OnSourceNext(sub, r) ==
    LET data == r.data \notin {Null, Undefined}
        seen == [sub EXCEPT !.produced = IF data THEN @ + 1 ELSE @,
                            !.late = @ \/ (fireCalls[sub.owner] > 0 /\ data)]
    IN  IF ~sub.attached THEN seen
        ELSE LET got  == [seen EXCEPT !.received = Append(@, r)]
                 vals == RepoPipe(r)
             IN  IF vals = <<>> THEN got
                 ELSE Take([got EXCEPT !.repoOut = @ \o vals], vals[1])

\* a pipe whose limit-reached completion calls destroy$.next()
SourceNextLimitFires(s, r) ==
    /\ s \in Started
    /\ subs[s].src = "open"
    /\ emits < MaxEmits
    /\ emits' = emits + 1
    /\ subs' =
         LET S == [subs EXCEPT ![s] = OnSourceNext(subs[s], r)]
         IN  IF subs[s].state = "pending" /\ S[s].reason = "limit"
             THEN FireSubs(subs[s].owner, S) ELSE S
    /\ planets' = planets
    /\ UNCHANGED <<fireCalls, inited, nsubs, handledErrors, unhandledErrors>>
    /\ UNCHANGED auxVars

\* the Apollo source of subscription s pushes response r
SourceNext(s, r) ==
    /\ s \in Started
    /\ subs[s].src = "open"
    /\ emits < MaxEmits
    /\ emits' = emits + 1
    /\ subs' = [subs EXCEPT ![s] = OnSourceNext(subs[s], r)]
    /\ planets' =
         IF subs[s].kind = "query" /\ Len(subs'[s].out) > Len(subs[s].out)
         THEN [planets EXCEPT ![subs[s].owner] = subs'[s].out[Len(subs'[s].out)]]
         ELSE planets
    /\ UNCHANGED <<fireCalls, inited, nsubs, handledErrors, unhandledErrors>>
    /\ UNCHANGED auxVars

\* a pipe with retry(): the error re-subscribes to the source
SourceErrorRetry(s) ==
    /\ s \in Started
    /\ subs[s].src = "open"
    /\ emits < MaxEmits
    /\ emits' = emits + 1
    /\ UNCHANGED <<fireCalls, inited, nsubs, subs, planets, handledErrors, unhandledErrors>>
    /\ UNCHANGED auxVars

\* the Apollo source of subscription s fails
SourceError(s) ==
    /\ s \in Started
    /\ subs[s].src = "open"
    /\ emits < MaxEmits
    /\ emits' = emits + 1
    /\ subs' = [subs EXCEPT ![s] = [Terminate(@, "error") EXCEPT !.src = "error"]]
    /\ handledErrors' =
         IF subs[s].state = "pending" /\ subs[s].observer.hasError
         THEN handledErrors \cup {s} ELSE handledErrors
    /\ unhandledErrors' =
         IF subs[s].state = "pending" /\ ~subs[s].observer.hasError
         THEN unhandledErrors \cup {s} ELSE unhandledErrors
    /\ UNCHANGED <<fireCalls, inited, nsubs, planets>>
    /\ UNCHANGED auxVars

\* a mutation source completes (a watchQuery source never does)
SourceComplete(s) ==
    /\ s \in Started
    /\ subs[s].kind = "mutation"
    /\ subs[s].src = "open"
    /\ emits < MaxEmits
    /\ emits' = emits + 1
    /\ subs' = [subs EXCEPT ![s] = [Terminate(@, "source") EXCEPT !.src = "done"]]
    /\ UNCHANGED <<fireCalls, inited, nsubs, planets, handledErrors, unhandledErrors>>
    /\ UNCHANGED auxVars

Next ==
    \/ \E o \in Owners : NgOnDestroy(o)
    \/ \E o \in Heroes : HeroNgOnInit(o)
    \/ \E o \in PlanetOwners : AddPlanet(o)
    \/ \E s \in SubIds, r \in Responses(emits + 1) : SourceNext(s, r)
    \/ \E s \in SubIds : SourceError(s)
    \/ \E s \in SubIds : SourceComplete(s)

Spec == Init /\ [][Next]_vars

\* ------------------------------------------------------------------ vocabulary
Pending(s) == subs[s].state = "pending"
Completed(s) == subs[s].state = "completed"
MutationSubs == { s \in Started : subs[s].kind = "mutation" }
HasData(r) == r.data # Null /\ r.data # Undefined
DataOf(rs) == [i \in 1..Len(rs) |-> rs[i].data]

\* ------------------------------------------------------------------ views
\* ids the route params can carry: no id (undefined), null, or a name
RouteIds == {Null, Undefined, "batman", "robin"}

\* param['id'] !== null  (strict inequality: true for undefined)
ParamFilter(x) == x # Null

NoHero == [call |-> "none"]
\* the observable heroRepository.getHero(id) returns
GetHero(id) == [call |-> "getHero", id |-> id]

\* heroId$ is the pipe ngOnInit assigns; null before
HeroIdObs(o) == IF inited[o] THEN "params|filter|map|tap" ELSE Null

ViewSubsOf(o) == { s \in SubsOf(o) : subs[s].kind = "view" }

\* an ngOnInit that subscribes to getAllPlanets() itself
PlanetNgOnInitEager(o) ==
    /\ o \in PlanetOwners
    /\ planetsObs[o] = Null /\ fireCalls[o] = 0
    /\ nsubs < MaxSubs
    /\ planetsObs' = [planetsObs EXCEPT ![o] = "getAllPlanets"]
    /\ nsubs' = nsubs + 1
    /\ subs' = [subs EXCEPT ![nsubs + 1] = NewSub(o, "query", 0)]
    /\ UNCHANGED <<fireCalls, inited, planets, emits, handledErrors, unhandledErrors>>
    /\ UNCHANGED <<heroIdSubs, heroObs, getHeroCalls, route, refetched, herosVars, pipeVars>>

\* PlanetComponent.ngOnInit: assigns planets$ (the framework runs it once,
\* before any ngOnDestroy)
PlanetNgOnInit(o) ==
    /\ o \in PlanetOwners
    /\ planetsObs[o] = Null /\ fireCalls[o] = 0
    /\ planetsObs' = [planetsObs EXCEPT ![o] = "getAllPlanets"]
    /\ UNCHANGED <<coreVars, heroIdSubs, heroObs, getHeroCalls, route, refetched, herosVars, pipeVars>>

\* the template's (planets$ | async): the async pipe subscribes to planets$
\* once it is assigned; it has no takeUntil and no take
ViewSubscribePlanets(o) ==
    /\ o \in PlanetOwners
    /\ planetsObs[o] # Null /\ fireCalls[o] = 0
    /\ ViewSubsOf(o) = {}
    /\ nsubs < MaxSubs
    /\ nsubs' = nsubs + 1
    /\ subs' = [subs EXCEPT ![nsubs + 1] = [NewSub(o, "view", 0) EXCEPT !.listening = FALSE]]
    /\ UNCHANGED <<fireCalls, inited, planets, emits, handledErrors, unhandledErrors>>
    /\ UNCHANGED auxVars

\* the template's (heroId$ | async): the async pipe subscribes to heroId$;
\* route.params replays the current params, whose id passes filter, map, tap
ViewSubscribeHeroId(o, id) ==
    /\ o \in Heroes
    /\ id = route[o].id
    /\ HeroIdObs(o) # Null /\ fireCalls[o] = 0
    /\ heroIdSubs[o] < MaxHeroIdSubs
    /\ heroIdSubs' = [heroIdSubs EXCEPT ![o] = @ + 1]
    /\ heroObs' = IF ParamFilter(id) THEN [heroObs EXCEPT ![o] = GetHero(id)] ELSE heroObs
    /\ getHeroCalls' = IF ParamFilter(id) THEN Append(getHeroCalls, id) ELSE getHeroCalls
    /\ UNCHANGED <<coreVars, planetsObs, route, refetched, herosVars, pipeVars>>

\* the subscribers of heroId$ still bound: the async pipe unsubscribes when
\* the view is destroyed
HeroIdActive(o) == IF fired(o) THEN 0 ELSE heroIdSubs[o]

\* a heroId$ multicast with share(): the stages run once for all subscribers
HeroIdRunsShared(n) == IF n > 0 THEN 1 ELSE 0

\* heroId$ is a cold pipe: filter, map and tap run once in each of the n
\* subscriptions for one value of route.params
HeroIdRuns(n) == n

\* the router changes the params to a different id; route.params pushes the
\* new params into the pipe of every subscriber of heroId$
RouteParamsNext(o, id) ==
    /\ o \in Heroes
    /\ id # route[o].id
    /\ route[o].navs < MaxNav
    /\ route' = [route EXCEPT ![o] = [id |-> id, navs |-> @.navs + 1]]
    /\ LET runs == IF ParamFilter(id) THEN HeroIdRuns(HeroIdActive(o)) ELSE 0
       IN  /\ heroObs' = IF runs > 0 THEN [heroObs EXCEPT ![o] = GetHero(id)] ELSE heroObs
           /\ getHeroCalls' = getHeroCalls \o [i \in 1..runs |-> id]
    /\ UNCHANGED <<coreVars, planetsObs, heroIdSubs, refetched, herosVars, pipeVars>>

NextView ==
    \/ \E o \in PlanetOwners : PlanetNgOnInit(o)
    \/ \E o \in Heroes : HeroNgOnInit(o)
    \/ \E o \in PlanetOwners : ViewSubscribePlanets(o)
    \/ \E o \in Heroes, id \in RouteIds : ViewSubscribeHeroId(o, id)
    \/ \E o \in PlanetOwners : AddPlanet(o)
    \/ \E o \in Owners : NgOnDestroy(o)

SpecView == Init /\ [][NextView]_vars

\* ------------------------------------------------------------------ refetch
\* the query getAllPlanets() watches, and the queries addPlanet lists in
\* refetchQueries
WatchedQuery == "GET_ALL_PLANETS"
\* a mutation without refetchQueries
RefetchQueriesNone == {}
RefetchQueries == {"GET_ALL_PLANETS"}

\* mutations that have produced their result
AnsweredMutations ==
    { s \in Started : subs[s].kind = "mutation" /\ subs[s].produced >= 1 }

\* refetches the provider owes: one per answered mutation that lists the query
RefetchOwed == IF WatchedQuery \in RefetchQueries THEN Cardinality(AnsweredMutations) ELSE 0

\* subscriptions to a getAllPlanets() observable
PlanetQuerySubs == { s \in Started : subs[s].kind \in {"query", "view"} }

\* the provider re-executes GET_ALL_PLANETS and republishes the result on
\* every watchQuery of it; only the still subscribed ones receive it
ProviderRefetch ==
    /\ refetched < RefetchOwed
    /\ refetched' = refetched + 1
    /\ LET r == [data |-> Payloads[refetched + 1]]
       IN  /\ subs' = [ s \in SubIds |->
                        IF s \in PlanetQuerySubs /\ subs[s].src = "open"
                        THEN OnSourceNext(subs[s], r) ELSE subs[s] ]
           /\ planets' = [ o \in Heroes |->
                        IF \E s \in SubsOf(o) : subs[s].kind = "query" /\ Pending(s)
                        THEN r.data ELSE planets[o] ]
    /\ UNCHANGED <<fireCalls, inited, nsubs, emits, handledErrors, unhandledErrors>>
    /\ UNCHANGED <<viewVars, herosVars, pipeVars>>

\* the mutation source of subscription s pushes response r
MutationNext(s, r) == s \in MutationSubs /\ SourceNext(s, r)

\* the list view whose button adds planets, next to one detail view
RefetchPlanets == {"planet1"}

NextRefetch ==
    \/ \E o \in RefetchPlanets : PlanetNgOnInit(o)
    \/ \E o \in Heroes : HeroNgOnInit(o)
    \/ \E o \in RefetchPlanets : ViewSubscribePlanets(o)
    \/ \E o \in RefetchPlanets : AddPlanet(o)
    \/ \E o \in Heroes \cup RefetchPlanets : NgOnDestroy(o)
    \/ \E s \in SubIds, r \in Responses(emits + 1) : MutationNext(s, r)
    \/ ProviderRefetch

\* the provider runs every refetch it owes
SpecRefetch == Init /\ [][NextRefetch]_vars /\ WF_vars(ProviderRefetch)

\* ------------------------------------------------------------------ getHerosByType
\* result.data !== null  (strict inequality: true for undefined)
HeroFilter(x) == x # Null

\* filter(result => result.data !== null), map(result => result.data as Hero[])
HeroRepoPipe(r) == IF HeroFilter(r.data) THEN <<r.data>> ELSE <<>>

\* the watchQuery behind getHerosByType() pushes response r to a subscriber
HerosNext(r) ==
    /\ Len(herosIn) < MaxHeros
    /\ herosIn' = Append(herosIn, r)
    /\ herosOut' = herosOut \o HeroRepoPipe(r)
    /\ UNCHANGED <<coreVars, viewVars, refetched, pipeVars>>

NextHeros == \E r \in Responses(Len(herosIn) + 1) : HerosNext(r)

SpecHeros == Init /\ [][NextHeros]_vars

\* ------------------------------------------------------------------ pipe variants
\* The README develops addPlanet through three pipes: takeUntil(destroy$)
\* alone, then take(1) with takeUntil(destroy$), and discusses take(1) without
\* the safety net; the operators are modelled one stage at a time so that
\* their order is part of the model.
CodeOps == <<"take", "takeUntil">>        \* pipe(take(1), takeUntil(destroy$))
SwappedOps == <<"takeUntil", "take">>     \* the same operators, other order
TakeOps == <<"take">>                     \* take(1) alone
\* the pipe of the final addPlanet in place of takeUntil(destroy$) alone
UntilOpsWithTake == <<"take", "takeUntil">>
UntilOps == <<"takeUntil">>               \* takeUntil(destroy$) alone
TakeCount == 1

NewPipe(ops) ==
    [ ops       |-> ops,
      open      |-> [i \in 1..Len(ops) |-> TRUE],   \* stage i not yet stopped
      seen      |-> 0,          \* values take has counted
      out       |-> <<>>,       \* values that reached the subscriber
      done      |-> FALSE,      \* the subscriber is stopped
      reason    |-> "none",
      completes |-> 0,
      attached  |-> TRUE ]      \* the chain is still subscribed to the source

\* a takeUntil stage that swallows the completion coming from upstream
ForwardsCompleteNotUntil(op) == op # "takeUntil"

\* both operators pass a completion (or error) from upstream on downstream
ForwardsComplete(op) == op \in {"take", "takeUntil"}

RECURSIVE PipeComplete(_, _, _)
\* a completion or error (why) arrives at stage i; past the last stage it
\* reaches the subscriber, which stops and unsubscribes the whole chain
PipeComplete(P, i, why) ==
    IF i > Len(P.ops)
    THEN IF P.done THEN P
         ELSE [P EXCEPT !.done = TRUE, !.reason = why, !.completes = @ + 1,
                        !.open = [j \in 1..Len(P.ops) |-> FALSE],
                        !.attached = FALSE]
    ELSE IF ~P.open[i] THEN P
    ELSE IF ForwardsComplete(P.ops[i])
         THEN PipeComplete([P EXCEPT !.open[i] = FALSE], i + 1, why)
         ELSE [P EXCEPT !.open[i] = FALSE]

RECURSIVE PipeNext(_, _, _)
\* value v arrives at stage i
PipeNext(P, i, v) ==
    IF i > Len(P.ops)
    THEN IF P.done THEN P ELSE [P EXCEPT !.out = Append(@, v)]
    ELSE IF ~P.open[i] THEN P
    ELSE IF P.ops[i] = "take"
         THEN IF P.seen + 1 > TakeCount THEN P
              ELSE LET P1 == PipeNext([P EXCEPT !.seen = @ + 1], i + 1, v)
                   IN  IF TakeCount <= P1.seen
                       THEN PipeComplete(P1, i + 1, "limit") ELSE P1
         ELSE PipeNext(P, i + 1, v)

\* a destruction that completes every subscriber, takeUntil or not
PipeNotifyAll(P) == PipeComplete(P, Len(P.ops) + 1, "signal")

\* destroy$.next(): a takeUntil stage that still listens completes downstream
PipeNotify(P) ==
    LET U == { i \in 1..Len(P.ops) : P.ops[i] = "takeUntil" /\ P.open[i] }
    IN  IF U = {} THEN P
        ELSE LET i == CHOOSE j \in U : TRUE
             IN  PipeComplete([P EXCEPT !.open[i] = FALSE], i + 1, "signal")

\* the source pushes response r into the chain
PipeSrcNext(P, r) ==
    IF ~P.attached \/ RepoPipe(r) = <<>> THEN P ELSE PipeNext(P, 1, RepoPipe(r)[1])

\* the source ends with an error or a completion
PipeSrcEnd(P, why) == IF ~P.attached THEN P ELSE PipeComplete(P, 1, why)

\* one addPlanet call: a mutation source and the four pipes subscribed to it
NewCall ==
    [ state     |-> "started",
      src       |-> "open",
      produced  |-> 0,
      bornFired |-> pipeFire > 0,
      code      |-> NewPipe(CodeOps),
      swapped   |-> NewPipe(SwappedOps),
      takeOnly  |-> NewPipe(TakeOps),
      untilOnly |-> NewPipe(UntilOps) ]

Calls == { c \in SubIds : pipes[c].state # "none" }

\* call C after destroy$.next() of its owner
CallNotified(C) ==
    [C EXCEPT !.code = PipeNotify(@), !.swapped = PipeNotify(@),
              !.takeOnly = PipeNotify(@), !.untilOnly = PipeNotify(@)]

\* call C after its source pushed response r
CallNext(C, r) ==
    [C EXCEPT !.produced = IF LooseNotNull(r.data) THEN @ + 1 ELSE @,
              !.code = PipeSrcNext(@, r), !.swapped = PipeSrcNext(@, r),
              !.takeOnly = PipeSrcNext(@, r), !.untilOnly = PipeSrcNext(@, r)]

\* call C after its source ended with an error ("error") or completed ("source")
CallEnd(C, why) ==
    [C EXCEPT !.src = IF why = "error" THEN "error" ELSE "done",
              !.code = PipeSrcEnd(@, why), !.swapped = PipeSrcEnd(@, why),
              !.takeOnly = PipeSrcEnd(@, why), !.untilOnly = PipeSrcEnd(@, why)]

PipeAddPlanet ==
    /\ Cardinality(Calls) < MaxSubs
    /\ pipes' = [pipes EXCEPT ![Cardinality(Calls) + 1] = NewCall]
    /\ UNCHANGED <<coreVars, viewVars, refetched, herosVars, pipeFire, pipeEvents>>

PipeNgOnDestroy ==
    /\ pipeFire < MaxFire
    /\ pipeFire' = pipeFire + 1
    /\ pipes' = [c \in SubIds |->
                   IF pipes[c].state = "none" THEN pipes[c]
                   ELSE CallNotified(pipes[c])]
    /\ UNCHANGED <<coreVars, viewVars, refetched, herosVars, pipeEvents>>

PipeSourceNext(c, r) ==
    /\ c \in Calls
    /\ pipes[c].src = "open"
    /\ pipeEvents < MaxEmits
    /\ pipeEvents' = pipeEvents + 1
    /\ pipes' = [pipes EXCEPT ![c] = CallNext(@, r)]
    /\ UNCHANGED <<coreVars, viewVars, refetched, herosVars, pipeFire>>

PipeSourceError(c) ==
    /\ c \in Calls
    /\ pipes[c].src = "open"
    /\ pipeEvents < MaxEmits
    /\ pipeEvents' = pipeEvents + 1
    /\ pipes' = [pipes EXCEPT ![c] = CallEnd(@, "error")]
    /\ UNCHANGED <<coreVars, viewVars, refetched, herosVars, pipeFire>>

PipeSourceComplete(c) ==
    /\ c \in Calls
    /\ pipes[c].src = "open"
    /\ pipeEvents < MaxEmits
    /\ pipeEvents' = pipeEvents + 1
    /\ pipes' = [pipes EXCEPT ![c] = CallEnd(@, "source")]
    /\ UNCHANGED <<coreVars, viewVars, refetched, herosVars, pipeFire>>

NextPipes ==
    \/ PipeAddPlanet
    \/ PipeNgOnDestroy
    \/ \E c \in SubIds, r \in Responses(pipeEvents + 1) : PipeSourceNext(c, r)
    \/ \E c \in SubIds : PipeSourceError(c)
    \/ \E c \in SubIds : PipeSourceComplete(c)

SpecPipes == Init /\ [][NextPipes]_vars

\* ------------------------------------------------------------------ planet component
\* PlanetComponent as a whole: ngOnInit, the view's binding of planets$,
\* addPlanet calls, their sources, ngOnDestroy
NextPlanet ==
    \/ \E o \in PlanetOwners : PlanetNgOnInit(o)
    \/ \E o \in PlanetOwners : ViewSubscribePlanets(o)
    \/ \E o \in PlanetOwners : AddPlanet(o)
    \/ \E s \in SubIds, r \in Responses(emits + 1) : SourceNext(s, r)
    \/ \E s \in SubIds : SourceError(s)
    \/ \E s \in SubIds : SourceComplete(s)
    \/ \E o \in PlanetOwners : NgOnDestroy(o)

SpecPlanet == Init /\ [][NextPlanet]_vars

\* ------------------------------------------------------------------ hero detail view
\* HeroDetailComponent with its view and the router: ngOnInit, the view's
\* bindings of heroId$, changes of the route params, ngOnDestroy
NextHeroView ==
    \/ \E o \in Heroes : HeroNgOnInit(o)
    \/ \E o \in Heroes, id \in RouteIds : ViewSubscribeHeroId(o, id)
    \/ \E o \in Heroes, id \in RouteIds : RouteParamsNext(o, id)
    \/ \E o \in Heroes : NgOnDestroy(o)

SpecHeroView == Init /\ [][NextHeroView]_vars

\* ------------------------------------------------------------------ claims

\* C1: no value reaches the subscriber of a subscription started before its
\* owner's ngOnDestroy once that ngOnDestroy has fired destroy$
C1_NoPostDestroyDelivery ==
    \A s \in Started : ~subs[s].bornFired => ~subs[s].lateOut

\* the source produced data after the owner fired and it reached nobody
C1_Witness ==
    \E s \in Started :
        /\ ~subs[s].bornFired /\ fired(subs[s].owner)
        /\ subs[s].late /\ subs[s].reason = "signal" /\ ~subs[s].lateOut

\* C2: after an owner's ngOnDestroy every subscription it started before is
\* completed; a mutation subscription completed by the signal got no value
C2_CompletedAfterDestroy ==
    \A s \in Started :
        /\ (~subs[s].bornFired /\ fired(subs[s].owner)) => Completed(s)
        /\ (subs[s].kind = "mutation" /\ subs[s].reason = "signal") => subs[s].out = <<>>

\* a mutation whose source never emitted, completed by the signal
C2_Witness ==
    \E s \in MutationSubs :
        /\ ~subs[s].bornFired /\ fired(subs[s].owner)
        /\ subs[s].produced = 0 /\ subs[s].received = <<>> /\ subs[s].src = "open"
        /\ Completed(s) /\ subs[s].reason = "signal" /\ subs[s].out = <<>>

\* C3: an addPlanet subscription passes on only the first value of its source
\* and is completed right after it, whether or not the owner is destroyed
C3_SingleResult ==
    \A s \in MutationSubs :
        /\ Len(subs[s].out) <= 1
        /\ subs[s].out # <<>> =>
              /\ Completed(s) /\ subs[s].reason = "limit"
              /\ subs[s].out[1] = subs[s].repoOut[1]

\* the source emitted two values while the owner was active
C3_Witness ==
    \E s \in MutationSubs :
        /\ ~fired(subs[s].owner) /\ subs[s].produced >= 2
        /\ Len(subs[s].out) = 1 /\ Completed(s)

\* C4: firing again right after an ngOnDestroy leaves every subscription as
\* the first call left it; no ngOnDestroy raises an error, delivers a value
\* or touches an already completed subscription
C4_IdempotentFire ==
    [][ \A o \in Owners : NgOnDestroy(o) =>
          /\ FireSubs(o, subs') = subs'
          /\ UNCHANGED <<planets, handledErrors, unhandledErrors>>
          /\ \A s \in Started :
                /\ subs'[s].out = subs[s].out
                /\ Completed(s) => subs'[s] = subs[s] ]_vars

\* ngOnDestroy ran twice on an owner whose subscription the signal completed
C4_Witness ==
    \E s \in Started :
        /\ fireCalls[subs[s].owner] >= 2
        /\ subs[s].reason = "signal" /\ subs[s].completes = 1

\* C5: ngOnDestroy of one owner changes no subscription of another owner
C5_IndependentOwners ==
    [][ \A a \in Owners : NgOnDestroy(a) =>
          \A s \in Started : subs[s].owner # a => subs'[s] = subs[s] ]_vars

\* one owner destroyed with a completed subscription, another still pending
C5_Witness ==
    \E sa, sb \in Started :
        /\ subs[sa].owner # subs[sb].owner
        /\ fired(subs[sa].owner) /\ subs[sa].reason = "signal"
        /\ ~fired(subs[sb].owner) /\ Pending(sb)

\* C6: once ngOnDestroy has run, no subscription of the owner is pending and
\* no value reaches the owner
C6_DestroyedIsTerminal ==
    \A s \in Started :
        fired(subs[s].owner) => (Completed(s) /\ ~subs[s].lateOut)

\* C7: a subscription is terminated exactly once; once completed it stays
\* completed and receives nothing
C7_CompletedOnce ==
    [][ \A s \in SubIds :
          /\ (subs'[s].state = "completed" => subs'[s].completes = 1)
          /\ (subs'[s].state = "pending" => subs'[s].completes = 0)
          /\ (subs[s].state = "completed" =>
                /\ subs'[s].state = "completed"
                /\ subs'[s].reason = subs[s].reason
                /\ subs'[s].out = subs[s].out) ]_vars

\* completed by the limit, and the owner's signal fired afterwards
C7_Witness ==
    \E s \in MutationSubs :
        /\ ~subs[s].bornFired /\ subs[s].reason = "limit"
        /\ fired(subs[s].owner) /\ subs[s].completes = 1

\* C8 as stated: on an active owner the pending mutation subscriptions are as
\* many as the calls whose source has not yet emitted a result
C8_PendingEqualsNoResult ==
    \A o \in PlanetOwners : ~fired(o) =>
        Cardinality({ s \in SubsOf(o) : Pending(s) })
          = Cardinality({ s \in SubsOf(o) : subs[s].produced = 0 })

\* C8 amended: on an active owner the pending mutation subscriptions are
\* exactly the calls whose source has neither emitted a result with data nor
\* ended by error or completion
C8_PendingIsUnanswered ==
    \A o \in PlanetOwners : ~fired(o) =>
        { s \in SubsOf(o) : Pending(s) }
          = { s \in SubsOf(o) : subs[s].produced = 0 /\ subs[s].src = "open" }

\* two calls on an active owner, each answered, none pending
C8_Witness ==
    \E o \in PlanetOwners :
        /\ ~fired(o) /\ Cardinality(SubsOf(o)) >= 2
        /\ \A s \in SubsOf(o) : subs[s].produced >= 1 /\ Completed(s)

\* C9: an error of the mutation source runs an error handler of the owner
C9_ErrorHandled ==
    \A s \in MutationSubs : subs[s].reason = "error" => s \in handledErrors

\* C10: the repository observable passes on exactly the data of the responses
\* that carry data, in order, and nothing for a response without data
C10_RepoDropsNoData ==
    \A s \in Started :
        /\ subs[s].repoOut = DataOf(SelectSeq(subs[s].received, HasData))
        /\ \A i \in 1..Len(subs[s].repoOut) :
              subs[s].repoOut[i] \notin {Null, Undefined}

\* a response without data was dropped and a later one with data passed on
C10_Witness ==
    \E s \in Started :
        /\ Len(subs[s].received) >= 2
        /\ ~HasData(subs[s].received[1])
        /\ subs[s].repoOut # <<>>

\* C12: ngOnDestroy is never refused: it can fire on every owner in every
\* state, also on an owner that never had a subscription
C12_FireUnconditional ==
    \A o \in Owners : fireCalls[o] < MaxFire => ENABLED NgOnDestroy(o)

\* a PlanetComponent destroyed without any addPlanet call
C12_Witness ==
    \E o \in PlanetOwners : fired(o) /\ SubsOf(o) = {}

\* C17: a source error terminates the subscription, leaves planets as it
\* was, starts no new subscription, and nothing happens to it afterwards
C17_ErrorNoRetry ==
    [][ \A s \in SubIds :
          /\ SourceError(s) =>
                /\ (Pending(s) => subs'[s].state = "completed" /\ subs'[s].reason = "error")
                /\ subs'[s].src = "error" /\ ~subs'[s].attached
                /\ subs'[s].out = subs[s].out
                /\ planets' = planets /\ nsubs' = nsubs
          /\ (subs[s].state # "none" /\ subs[s].src = "error") => subs'[s] = subs[s] ]_vars

\* the read subscription failed after a value had been assigned to planets
C17_Witness ==
    \E s \in Started :
        /\ subs[s].kind = "query" /\ subs[s].reason = "error"
        /\ planets[subs[s].owner] # Null
        /\ planets[subs[s].owner] = subs[s].out[Len(subs[s].out)]

\* C19: planets is the latest value of getAllPlanets; while the owner is
\* active every value is assigned; after ngOnDestroy planets never changes
C19_PlanetsIsLatest ==
    /\ [] \A o \in Heroes :
            /\ (SubsOf(o) = {}) => planets[o] = Null
            /\ \A s \in SubsOf(o) :
                  /\ planets[o] = IF subs[s].out = <<>> THEN Null
                                  ELSE subs[s].out[Len(subs[s].out)]
                  /\ (~fired(o) /\ subs[s].src = "open") =>
                        /\ Pending(s)
                        /\ Len(subs[s].out) = subs[s].produced
                        /\ subs[s].out = DataOf(SelectSeq(subs[s].received, HasData))
    /\ [][ \A o \in Heroes : fired(o) => planets'[o] = planets[o] ]_vars

\* two results were assigned in turn and the owner was destroyed afterwards
C19_Witness ==
    \E o \in Heroes : \E s \in SubsOf(o) :
        /\ Len(subs[s].out) = 2 /\ subs[s].out[1] # subs[s].out[2]
        /\ planets[o] = subs[s].out[2] /\ fired(o)

\* C20: a response without data does not use up take(1): a pending addPlanet
\* subscription has seen only such responses, and one completed by the limit
\* got exactly the first response with data
C20_NoDataKeepsLimit ==
    \A s \in MutationSubs :
        /\ Pending(s) =>
              /\ subs[s].out = <<>>
              /\ \A i \in 1..Len(subs[s].received) : ~HasData(subs[s].received[i])
        /\ Completed(s) => subs[s].reason \in {"limit", "signal", "error", "source"}
        /\ subs[s].reason = "limit" =>
              LET n == Len(subs[s].received)
              IN  /\ n >= 1 /\ HasData(subs[s].received[n])
                  /\ \A i \in 1..(n - 1) : ~HasData(subs[s].received[i])
                  /\ subs[s].out = <<subs[s].received[n].data>>

\* a response without data was received first, the limit counted the next
C20_Witness ==
    \E s \in MutationSubs :
        /\ subs[s].reason = "limit" /\ Len(subs[s].received) = 2
        /\ ~HasData(subs[s].received[1])

\* C18: getHerosByType passes on no value taken from a response whose data
\* is null or undefined
C18_HerosDropNoData ==
    \A i \in 1..Len(herosOut) : herosOut[i] \notin {Null, Undefined}

\* what an owner can observe of a pipe
Observed(P) == <<P.out, P.done, P.reason, P.completes, P.attached>>

C15_TakeAloneLeaks ==
    \A c \in Calls :
        (pipes[c].src = "open" /\ pipes[c].produced = 0) => ~pipes[c].takeOnly.done

\* the owner was destroyed; the pipe of the code completed, take(1) alone not
C15_Witness ==
    \E c \in Calls :
        /\ ~pipes[c].bornFired /\ pipeFire > 0
        /\ pipes[c].src = "open" /\ pipes[c].produced = 0
        /\ ~pipes[c].takeOnly.done /\ pipes[c].code.reason = "signal"

\* C16 as stated: with takeUntil(destroy$) alone every call's subscription is
\* pending while the owner is active and completed once it is destroyed
C16_PendingUntilDestroy ==
    \A c \in Calls :
        /\ pipeFire = 0 => ~pipes[c].untilOnly.done
        /\ (~pipes[c].bornFired /\ pipeFire > 0) => pipes[c].untilOnly.done

\* C16 amended: ... pending while the owner is active and the source has not
\* ended, however many results it received
C16_PendingUntilDestroyOrEnd ==
    \A c \in Calls :
        /\ (pipeFire = 0 /\ pipes[c].src = "open") =>
              /\ ~pipes[c].untilOnly.done
              /\ Len(pipes[c].untilOnly.out) = pipes[c].produced
        /\ (~pipes[c].bornFired /\ pipeFire > 0) => pipes[c].untilOnly.done

\* two calls on an active owner, both answered, both still pending
C16_Witness ==
    \E c, d \in Calls :
        /\ c # d /\ pipeFire = 0
        /\ pipes[c].produced >= 1 /\ ~pipes[c].untilOnly.done
        /\ pipes[d].produced >= 1 /\ ~pipes[d].untilOnly.done
        /\ pipes[c].code.done /\ pipes[d].code.done

\* C11: every answered addPlanet mutation is followed by a refetch of
\* GET_ALL_PLANETS, and a refetch reaches exactly the getAllPlanets
\* subscriptions that are still subscribed
C11_RefetchReachesActive ==
    /\ \A n \in 1..MaxSubs :
          [](Cardinality(AnsweredMutations) >= n => <>(refetched >= n))
    /\ [][ ProviderRefetch =>
             \A s \in PlanetQuerySubs :
                IF Pending(s)
                THEN /\ Len(subs'[s].received) = Len(subs[s].received) + 1
                     /\ Len(subs'[s].out) = Len(subs[s].out) + 1
                ELSE subs'[s].received = subs[s].received /\ subs'[s].out = subs[s].out ]_vars

\* a refetch reached an active subscription and passed a terminated one by
C11_Witness ==
    /\ refetched >= 1
    /\ \E s \in PlanetQuerySubs : Pending(s) /\ Len(subs[s].out) >= 1
    /\ \E s \in PlanetQuerySubs : Completed(s) /\ subs[s].out = <<>> /\ subs[s].late

\* C13: the ngOnInit assignments of planets$ and heroId$ subscribe to
\* nothing: no execution and no getHero call; a subscription appears only
\* with a subscribe() of the code or a binding of the view
C13_AssignmentIsLazy ==
    [][ /\ \A o \in PlanetOwners : PlanetNgOnInit(o) =>
              /\ planetsObs'[o] # Null
              /\ UNCHANGED <<nsubs, subs, heroIdSubs, heroObs, getHeroCalls>>
        /\ \A o \in Heroes : HeroNgOnInit(o) =>
              /\ HeroIdObs(o)' # Null
              /\ UNCHANGED <<heroIdSubs, heroObs, getHeroCalls>>
              /\ { s \in SubIds : subs'[s] # subs[s] } = {nsubs'}
              /\ subs'[nsubs'].kind = "query"
        /\ getHeroCalls' # getHeroCalls => \E o \in Heroes : heroIdSubs'[o] > 0
        /\ \A s \in SubIds : (subs[s].state = "none" /\ subs'[s].state # "none") =>
              \/ subs'[s].kind \in {"query", "mutation"}
              \/ subs'[s].kind = "view" /\ planetsObs[subs'[s].owner] # Null ]_vars

\* both components initialised, nothing bound yet: no view subscription, no
\* getHero call, hero$ still null
C13_Witness ==
    /\ \E o \in PlanetOwners : planetsObs[o] # Null /\ ViewSubsOf(o) = {}
    /\ \E o \in Heroes : inited[o] /\ heroIdSubs[o] = 0 /\ heroObs[o] = NoHero
    /\ getHeroCalls = <<>>

\* C21: when an addPlanet subscription completes because take(1) reached its
\* limit, destroy$ is not fired, the owner's lifecycle state is unchanged,
\* and every other subscription is left as it was; the owner's other pending
\* subscriptions (addPlanet calls in flight, the view's planets$) stay
\* pending and still pass the next value of their source to the subscriber
LimitCompleted(s) ==
    /\ subs[s].state = "pending"
    /\ subs'[s].state = "completed" /\ subs'[s].reason = "limit"

C21_LimitCompletionIsLocal ==
    [][ \A s \in SubIds : LimitCompleted(s) =>
          /\ subs[s].kind = "mutation"
          /\ UNCHANGED <<fireCalls, planetsObs, inited>>
          /\ \A t \in SubIds \ {s} : subs'[t] = subs[t]
          /\ \A t \in SubsOf(subs[s].owner) \ {s} : Pending(t) =>
                /\ subs'[t].state = "pending"
                /\ OnSourceNext(subs'[t], [data |-> "ceres"]).out
                     = Append(subs[t].out, "ceres") ]_vars

\* one addPlanet call completed at its limit while the same owner's view
\* subscription and a second addPlanet call were pending; the view
\* subscription received a value afterwards
C21_Witness ==
    \E o \in PlanetOwners : \E s, t, v \in SubsOf(o) :
        /\ s # t
        /\ subs[s].kind = "mutation" /\ Completed(s) /\ subs[s].reason = "limit"
        /\ subs[s].out = <<Payloads[1]>>
        /\ subs[t].kind = "mutation" /\ Pending(t)
        /\ subs[v].kind = "view" /\ Pending(v) /\ subs[v].out = <<Payloads[2]>>
        /\ fireCalls[o] = 0

\* C22: getHero is called only with an id present in the route params: a
\* params value whose id is missing (undefined) or null passes neither the
\* filter nor the tap, so it is never an argument of getHero and never the
\* id of hero$
PresentId(id) == id \notin {Null, Undefined}

C22_GetHeroOnlyWithId ==
    /\ \A i \in 1..Len(getHeroCalls) : PresentId(getHeroCalls[i])
    /\ \A o \in Heroes : heroObs[o] # NoHero => PresentId(heroObs[o].id)

\* C23: hero$ is null until heroId$ has a subscriber and has emitted; after
\* every emission hero$ is the observable getHero returned for the id
\* emitted last; every value heroId$ emits to a subscriber is one call of
\* getHero with that id, and there is no other call
HeroIdEmits(o) ==
    LET id == route[o].id'
        n  == IF heroIdSubs'[o] # heroIdSubs[o] THEN heroIdSubs'[o] - heroIdSubs[o]
              ELSE IF route'[o] # route[o] THEN HeroIdActive(o)
              ELSE 0
    IN  IF ParamFilter(id) THEN [i \in 1..n |-> id] ELSE <<>>

C23_HeroFollowsHeroId ==
    /\ [](\A o \in Heroes :
            /\ heroObs[o] = IF getHeroCalls = <<>> THEN NoHero
                            ELSE GetHero(getHeroCalls[Len(getHeroCalls)])
            /\ heroIdSubs[o] = 0 => heroObs[o] = NoHero)
    /\ [][\A o \in Heroes : getHeroCalls' = getHeroCalls \o HeroIdEmits(o)]_vars

\* two subscribers of heroId$ were bound on one id and the route then
\* changed to another: two getHero calls for each id, hero$ from the last
C23_Witness ==
    \E o \in Heroes :
        /\ heroIdSubs[o] = 2 /\ ~fired(o)
        /\ getHeroCalls = <<"batman", "batman", "robin", "robin">>
        /\ heroObs[o] = GetHero("robin")

====
